---------------------------- MODULE Spec2Model ----------------------------
(***************************************************************************)
(* Model of the leveling-text parser of src/update.py: Attribute           *)
(* (from_string, _parse_scaling, _parse_flat) and Ability                  *)
(* (_parse_html_table, _preparse_format, _parse_leveling, _split_leveling, *)
(* _match_and_split).                                                      *)
(*                                                                         *)
(* A Python str is a sequence of one-character strings; the non-breaking   *)
(* space U+00A0 is the element "NBSP".  A raised exception is the name of  *)
(* its class in the field err of the value an operator yields ("" when     *)
(* nothing was raised).  A Python number is a record [k, n, d, s]: k is    *)
(* "int" or "float", n/d its value (exact: float rounding is not           *)
(* modelled), and k = "str" with the text in s for the one place where     *)
(* the source stores a string among the values.                            *)
(***************************************************************************)
EXTENDS Integers, Sequences, FiniteSets, TLC

(***************************************************************************)
(* Python evaluates the right-hand side of an assignment once and binds    *)
(* the value: Bind(e, LAMBDA x : body) is "x = e", then body.              *)
(***************************************************************************)
Bind(e, Body(_)) == CHOOSE r \in {Body(x) : x \in {e}} : TRUE

(***************************************************************************)
(* Python str primitives                                                   *)
(***************************************************************************)
Digit == {"0", "1", "2", "3", "4", "5", "6", "7", "8", "9"}

Letter ==
    {"A", "B", "C", "D", "E", "F", "G", "H", "I", "J", "K", "L", "M",
     "N", "O", "P", "Q", "R", "S", "T", "U", "V", "W", "X", "Y", "Z",
     "a", "b", "c", "d", "e", "f", "g", "h", "i", "j", "k", "l", "m",
     "n", "o", "p", "q", "r", "s", "t", "u", "v", "w", "x", "y", "z"}

\* str.isspace / the regex class \s, over the characters the model uses
Whitespace == {" ", "NBSP"}

MinOf(S) == Bind(S, LAMBDA T : CHOOSE x \in T : \A y \in T : x <= y)

MaxOf(S) == Bind(S, LAMBDA T : CHOOSE x \in T : \A y \in T : y <= x)

\* s[n:]
Drop(s, n) == SubSeq(s, n + 1, Len(s))

\* s[:n]
Take(s, n) == SubSeq(s, 1, n)

\* s.startswith(p)
startswith(s, p) == Len(p) <= Len(s) /\ SubSeq(s, 1, Len(p)) = p

\* s.endswith(p)
endswith(s, p) == Len(p) <= Len(s) /\ SubSeq(s, Len(s) - Len(p) + 1, Len(s)) = p

\* s.find(p) + 1: the 1-based position of the first occurrence of p, 0 if none
find(s, p) ==
    Bind({i \in 1..(Len(s) - Len(p) + 1) : SubSeq(s, i, i + Len(p) - 1) = p},
         LAMBDA at : IF at = {} THEN 0 ELSE MinOf(at))

\* p in s
Contains(s, p) == find(s, p) # 0

\* s.strip()
strip(s) ==
    Bind({i \in 1..Len(s) : s[i] \notin Whitespace},
         LAMBDA ink : IF ink = {} THEN <<>> ELSE SubSeq(s, MinOf(ink), MaxOf(ink)))

\* s.replace(old, new), old non-empty
RECURSIVE replace(_, _, _)
replace(s, old, new) ==
    Bind(find(s, old), LAMBDA i :
        IF i = 0 THEN s
        ELSE Bind(Drop(s, i - 1 + Len(old)), LAMBDA rest :
                 Take(s, i - 1) \o new \o replace(rest, old, new)))

\* s.split(sep)
RECURSIVE split(_, _)
split(s, sep) ==
    Bind(find(s, sep), LAMBDA i :
        IF i = 0 THEN <<s>>
        ELSE Bind(Drop(s, i - 1 + Len(sep)), LAMBDA rest :
                 <<Take(s, i - 1)>> \o split(rest, sep)))

\* s.count(sep)
count(s, sep) == Len(split(s, sep)) - 1

\* [x for _ in range(n)]
Repeat(x, n) == [i \in 1..n |-> x]

\* sep.join(parts)
RECURSIVE join(_, _)
join(sep, parts) ==
    IF parts = <<>> THEN <<>>
    ELSE IF Len(parts) = 1 THEN parts[1]
    ELSE parts[1] \o sep \o join(sep, Tail(parts))

(***************************************************************************)
(* The four patterns (re.compile(r).findall(s)) and eval on a literal      *)
(***************************************************************************)
\* the end of the run of digits that starts at i (i - 1 when s[i] is no digit)
DigitRunEnd(s, i) ==
    Bind({k \in i..Len(s) : s[k] \notin Digit},
         LAMBDA stop : IF stop = {} THEN Len(s) ELSE MinOf(stop) - 1)

\* the end of the match of \d+\.?\d* that starts at b
NumberEnd(s, b) ==
    Bind(DigitRunEnd(s, b), LAMBDA e :
        IF e < Len(s) /\ s[e + 1] = "." THEN DigitRunEnd(s, e + 2) ELSE e)

\* rnumber = (\d+\.?\d*): every non-overlapping numeric literal, left to right,
\* searched from position i
RECURSIVE rnumber_from(_, _)
rnumber_from(s, i) ==
    Bind({k \in i..Len(s) : s[k] \in Digit}, LAMBDA digits :
        IF digits = {} THEN <<>>
        ELSE Bind(MinOf(digits), LAMBDA b :
             Bind(NumberEnd(s, b), LAMBDA e :
                 <<SubSeq(s, b, e)>> \o rnumber_from(s, e + 1))))

rnumber(s) == rnumber_from(s, 1)

\* rscaling = (\(\+.+?\)): "(+", at least one character, up to the first ")",
\* searched from position i
RECURSIVE rscaling_from(_, _)
rscaling_from(s, i) ==
    Bind({j \in i..Len(s) : s[j] = ")"}, LAMBDA close :
    Bind({b \in i..(Len(s) - 3) :
             /\ s[b] = "(" /\ s[b + 1] = "+"
             /\ \E j \in close : j >= b + 3}, LAMBDA open :
        IF open = {} THEN <<>>
        ELSE Bind(MinOf(open), LAMBDA b :
             Bind(MinOf({j \in close : j >= b + 3}), LAMBDA e :
                 <<SubSeq(s, b, e)>> \o rscaling_from(s, e + 1)))))

rscaling(s) == rscaling_from(s, 1)

\* rflat = ": (.+)": what follows the first ": " that has something after it
rflat(s) ==
    Bind({i \in 1..(Len(s) - 2) : s[i] = ":" /\ s[i + 1] = " "},
         LAMBDA at : IF at = {} THEN <<>> ELSE <<Drop(s, MinOf(at) + 1)>>)

\* [A-Za-z'\-\.0-9]
LabelChar == Letter \cup Digit \cup {"'", "-", "."}

\* rattribute = ((?:[A-Za-z'\-\.0-9]+[\s\-]*)+:): a label character, then the
\* longest run of label characters and whitespace, then the colon; searched
\* from position i.  stop holds the positions that end a run.
RECURSIVE rattribute_from(_, _)
rattribute_from(s, i) ==
    Bind({k \in i..Len(s) : s[k] \notin (LabelChar \cup Whitespace)}, LAMBDA stop :
    Bind({b \in i..Len(s) :
             /\ s[b] \in LabelChar
             /\ \E c \in stop : /\ c > b
                                /\ s[c] = ":"
                                /\ \A k \in stop : k < b \/ k >= c}, LAMBDA begin :
        IF begin = {} THEN <<>>
        ELSE Bind(MinOf(begin), LAMBDA b :
             Bind(MinOf({c \in stop : c > b}), LAMBDA e :
                 <<SubSeq(s, b, e)>> \o rattribute_from(s, e + 1)))))

rattribute(s) == rattribute_from(s, 1)

DigitValue ==
    ("0" :> 0) @@ ("1" :> 1) @@ ("2" :> 2) @@ ("3" :> 3) @@ ("4" :> 4) @@
    ("5" :> 5) @@ ("6" :> 6) @@ ("7" :> 7) @@ ("8" :> 8) @@ ("9" :> 9)

RECURSIVE DigitsValue(_)
DigitsValue(ds) ==
    IF ds = <<>> THEN 0
    ELSE 10 * DigitsValue(Take(ds, Len(ds) - 1)) + DigitValue[ds[Len(ds)]]

RECURSIVE Pow10(_)
Pow10(k) == IF k = 0 THEN 1 ELSE 10 * Pow10(k - 1)

RECURSIVE GCD(_, _)
GCD(a, b) == IF b = 0 THEN a ELSE GCD(b, a % b)

\* an int or a float of value n / d (n >= 0, d > 0), in lowest terms
Number(k, n, d) ==
    Bind(GCD(n, d), LAMBDA g : [k |-> k, n |-> n \div g, d |-> d \div g, s |-> <<>>])

Text(s) == [k |-> "str", n |-> 0, d |-> 1, s |-> s]

\* eval(v) for v a match of rnumber: an int without a point, a float with one;
\* Python rejects an integer literal with a leading zero unless it is all zeros
eval(v) ==
    Bind(find(v, <<".">>), LAMBDA dot :
        IF dot = 0
        THEN IF Len(v) > 1 /\ v[1] = "0" /\ DigitsValue(v) # 0
             THEN [err |-> "SyntaxError", v |-> Number("int", 0, 1)]
             ELSE [err |-> "", v |-> Number("int", DigitsValue(v), 1)]
        ELSE [err |-> "",
              v |-> Number("float", DigitsValue(Take(v, dot - 1) \o Drop(v, dot)),
                           Pow10(Len(v) - dot))])

\* the first exception a list of outcomes raises, "" if none does
FirstError(rs) ==
    Bind({i \in 1..Len(rs) : rs[i].err # ""},
         LAMBDA bad : IF bad = {} THEN "" ELSE rs[MinOf(bad)].err)

(***************************************************************************)
(* Literals of the source                                                  *)
(***************************************************************************)
\* ' / '
SLASH ==
    <<" ", "/", " ">>

\* ' + '
PLUS ==
    <<" ", "+", " ">>

\* 'Siphoning Strike stacks'
SIPHONING_STRIKE ==
    <<"S", "i", "p", "h", "o", "n", "i", "n", "g", " ", "S", "t", "r", "i", "k", "e", " ", "s",
      "t", "a", "c", "k", "s">>

\* '(based on level)'
BASED_ON_LEVEL ==
    <<"(", "b", "a", "s", "e", "d", " ", "o", "n", " ", "l", "e", "v", "e", "l", ")">>

\* '(based on casts)'
BASED_ON_CASTS ==
    <<"(", "b", "a", "s", "e", "d", " ", "o", "n", " ", "c", "a", "s", "t", "s", ")">>

\* 'by level'
BY_LEVEL ==
    <<"b", "y", " ", "l", "e", "v", "e", "l">>

\* 'by cast'
BY_CAST ==
    <<"b", "y", " ", "c", "a", "s", "t">>

(***************************************************************************)
(* class AttributeModifier, class Attribute                                *)
(***************************************************************************)
AttributeModifier(sign, values, units) ==
    [sign |-> sign, values |-> values, units |-> units]

NoModifier == AttributeModifier("", <<>>, <<>>)

\* the body of the loop of _parse_scaling over one sub-fragment
ScalingValue(value) ==
    Bind(rnumber(value), LAMBDA v :
        IF Len(v) = 0
        THEN IF value = SIPHONING_STRIKE
             THEN [err |-> "", v |-> Text(value), unit |-> <<>>]
             ELSE [err |-> "AssertionError", v |-> Text(<<>>), unit |-> <<>>]
        ELSE IF ~(startswith(value, v[1]) \/ startswith(value, <<"[", " ">> \o v[1]))
             THEN [err |-> "AssertionError", v |-> Text(<<>>), unit |-> <<>>]
             ELSE Bind(eval(v[1]), LAMBDA e :
                      [err |-> e.err, v |-> e.v, unit |-> Drop(value, Len(v[1]))]))

\* the AttributeModifier of the (v, unit) pairs a loop has collected
ScalingModifier(sign, results) ==
    AttributeModifier(sign, [i \in 1..Len(results) |-> results[i].v],
                      [i \in 1..Len(results) |-> results[i].unit])

\* Levels with a fragment without ' / ' kept as the one sub-fragment it is (C9
\* tells the two apart)
Levels_Single(text, num_levels) ==
    IF Contains(text, SLASH) THEN split(text, SLASH) ELSE <<text>>

\* the sub-fragments of a fragment: split on ' / ', or num_levels copies
Levels(text, num_levels) ==
    IF Contains(text, SLASH) THEN split(text, SLASH) ELSE Repeat(text, num_levels)

\* text[1:-1].strip() when text is in parentheses
Unwrap(text) ==
    IF startswith(text, <<"(">>) /\ endswith(text, <<")">>)
    THEN strip(SubSeq(text, 2, Len(text) - 1))
    ELSE text

\* Attribute._parse_scaling
_parse_scaling(scaling, num_levels) ==
    Bind(Unwrap(scaling), LAMBDA inner :
        IF inner = <<>>
        THEN [err |-> "IndexError", modifier |-> NoModifier]
        ELSE Bind(strip(Drop(inner, 1)), LAMBDA rest :
             Bind(Levels(rest, num_levels), LAMBDA parts :
             Bind([i \in 1..Len(parts) |-> ScalingValue(parts[i])], LAMBDA results :
                 IF FirstError(results) # ""
                 THEN [err |-> FirstError(results), modifier |-> NoModifier]
                 ELSE [err |-> "", modifier |-> ScalingModifier(inner[1], results)]))))

\* the body of the loop of _parse_flat over one sub-fragment
FlatValue(value) ==
    Bind(rnumber(value), LAMBDA v :
        IF Len(v) # 1 \/ ~startswith(value, v[1])
        THEN [err |-> "AssertionError", v |-> Text(<<>>), unit |-> <<>>]
        ELSE Bind(eval(v[1]), LAMBDA e :
                 [err |-> e.err, v |-> e.v, unit |-> Drop(value, Len(v[1]))]))

\* UnifyUnits that leaves the units as they were collected (C6 tells the two
\* apart)
UnifyUnits_AsCollected(units) == [err |-> "", units |-> units]

\* the units of _parse_flat after unique_units has been looked at
UnifyUnits(units) ==
    Bind({units[i] : i \in 1..Len(units)} \ {<<>>}, LAMBDA unique_units :
        IF unique_units = {} THEN [err |-> "", units |-> units]
        ELSE IF Cardinality(unique_units) # 1
        THEN [err |-> "AssertionError", units |-> units]
        ELSE [err |-> "",
              units |-> Repeat(CHOOSE u \in unique_units : TRUE, Len(units))])

\* Interpolate with 18 steps between minn and maxx in place of 17 (C5 tells the
\* two apart)
Interpolate_EighteenSteps(minn, maxx, i) ==
    Number("float", 18 * minn.n * maxx.d + i * (maxx.n * minn.d - minn.n * maxx.d),
           18 * minn.d * maxx.d)

\* minn + i * delta with delta = (maxx - minn) / 17.0, as an exact fraction
Interpolate(minn, maxx, i) ==
    Number("float", 17 * minn.n * maxx.d + i * (maxx.n * minn.d - minn.n * maxx.d),
           17 * minn.d * maxx.d)

\* the modifier of the interpolated branch, from the two evaluated literals
InterpolatedModifier(minn, maxx, unit) ==
    IF minn.err # "" THEN [err |-> minn.err, modifier |-> NoModifier]
    ELSE IF maxx.err # "" THEN [err |-> maxx.err, modifier |-> NoModifier]
    ELSE [err |-> "",
          modifier |-> AttributeModifier("+",
                           [i \in 1..18 |-> Interpolate(minn.v, maxx.v, i - 1)],
                           Repeat(unit, 18))]

\* Attribute._parse_flat, the branch of '(based on level)' / '(based on casts)'
ParseInterpolated(flat) ==
    Bind(IF Contains(flat, BASED_ON_LEVEL) THEN BASED_ON_LEVEL ELSE BASED_ON_CASTS,
         LAMBDA marker :
    Bind(rnumber(strip(replace(flat, marker, <<>>))), LAMBDA values :
        IF Len(values) # 2
        THEN [err |-> "AssertionError", modifier |-> NoModifier]
        ELSE Bind(eval(values[1]), LAMBDA minn :
             Bind(eval(values[2]), LAMBDA maxx :
                 InterpolatedModifier(minn, maxx,
                     IF marker = BASED_ON_LEVEL THEN BY_LEVEL ELSE BY_CAST)))))

\* the modifier of the literal-list branch, from the (v, unit) pairs
FlatModifier(results) ==
    Bind(UnifyUnits([i \in 1..Len(results) |-> results[i].unit]), LAMBDA unified :
        IF FirstError(results) # ""
        THEN [err |-> FirstError(results), modifier |-> NoModifier]
        ELSE IF unified.err # ""
        THEN [err |-> unified.err, modifier |-> NoModifier]
        ELSE [err |-> "",
              modifier |-> AttributeModifier("+",
                               [i \in 1..Len(results) |-> results[i].v],
                               unified.units)])

\* Attribute._parse_flat, the branch of a literal list
ParseLiteralList(flat, num_levels) ==
    Bind(Unwrap(flat), LAMBDA inner :
    Bind(Levels(inner, num_levels), LAMBDA parts :
    Bind([i \in 1..Len(parts) |-> FlatValue(parts[i])], LAMBDA results :
        FlatModifier(results))))

\* Attribute._parse_flat
_parse_flat(flat, num_levels) ==
    IF Contains(flat, BASED_ON_LEVEL) \/ Contains(flat, BASED_ON_CASTS)
    THEN ParseInterpolated(flat)
    ELSE ParseLiteralList(flat, num_levels)

\* for scaling in scalings: split = split.replace(scaling, '').strip()
RECURSIVE RemoveScalings(_, _)
RemoveScalings(text, scalings) ==
    IF scalings = <<>> THEN text
    ELSE Bind(strip(replace(text, scalings[1], <<>>)), LAMBDA rest :
         Bind(Tail(scalings), LAMBDA others : RemoveScalings(rest, others)))

\* [x for s in flat for x in s]
RECURSIVE Flatten(_)
Flatten(lists) ==
    IF lists = <<>> THEN <<>> ELSE lists[1] \o Flatten(Tail(lists))

\* the scaling fragments from_string hands to _parse_scaling
ScalingFragments(text) ==
    Bind(rscaling(text), LAMBDA scalings :
        [i \in 1..Len(scalings) |-> strip(scalings[i])])

\* the text from_string is left with once the scalings are removed
WithoutScalings(text) ==
    Bind(rscaling(text), LAMBDA scalings : RemoveScalings(text, scalings))

\* BareFragments without the case of 5 numbers (C8 tells the two apart)
BareFragments_NoFive(rest) ==
    Bind(rnumber(rest), LAMBDA numbers :
    Bind(count(rest, SLASH), LAMBDA slashes :
        IF slashes = 2 /\ Len(numbers) = 3 THEN <<rest>>
        ELSE IF Len(numbers) = 1 /\ numbers[1] = rest THEN <<rest>>
        ELSE <<>>))

\* the flat fragments from_string finds when rflat found none
BareFragments(rest) ==
    Bind(rnumber(rest), LAMBDA numbers :
    Bind(count(rest, SLASH), LAMBDA slashes :
        IF slashes = 4 /\ Len(numbers) = 5 THEN <<rest>>
        ELSE IF slashes = 2 /\ Len(numbers) = 3 THEN <<rest>>
        ELSE IF Len(numbers) = 1 /\ numbers[1] = rest THEN <<rest>>
        ELSE <<>>))

\* the flat fragments from_string hands to _parse_flat
FlatFragments(text) ==
    Bind(WithoutScalings(text), LAMBDA rest :
    Bind(rflat(rest), LAMBDA found :
    Bind(Flatten([i \in 1..Len(found) |-> split(strip(found[i]), PLUS)]), LAMBDA flat :
        IF flat # <<>> THEN flat ELSE BareFragments(rest))))

\* Modifiers with the flat fragments first (C4 tells the two apart)
Modifiers_FlatFirst(scalings, flat) ==
    [i \in 1..Len(flat) |-> _parse_flat(flat[i], 5)]
        \o [i \in 1..Len(scalings) |-> _parse_scaling(scalings[i], 5)]

\* the modifiers of from_string: those of the scalings, then those of the flat
\* fragments
Modifiers(scalings, flat) ==
    [i \in 1..Len(scalings) |-> _parse_scaling(scalings[i], 5)]
        \o [i \in 1..Len(flat) |-> _parse_flat(flat[i], 5)]

\* Attribute.from_string
from_string(name, text) ==
    Bind(ScalingFragments(text), LAMBDA scalings :
    Bind(FlatFragments(text), LAMBDA flat :
    Bind(Modifiers(scalings, flat), LAMBDA results :
        IF FirstError(results) # ""
        THEN [err |-> FirstError(results),
              attribute |-> [attribute |-> name, modifiers |-> <<>>]]
        ELSE [err |-> "",
              attribute |-> [attribute |-> name,
                             modifiers |-> [i \in 1..Len(results) |->
                                               results[i].modifier]]])))

\* "Pounce scales with  Aspect of the Cougar's rank"
POUNCE_SCALES ==
    <<"P", "o", "u", "n", "c", "e", " ", "s", "c", "a", "l", "e", "s", " ", "w", "i", "t", "h",
      " ", " ", "A", "s", "p", "e", "c", "t", " ", "o", "f", " ", "t", "h", "e", " ", "C", "o",
      "u", "g", "a", "r", "'", "s", " ", "r", "a", "n", "k">>

\* "Cougar form's abilities rank up when  Aspect of the Cougar does"
COUGAR_FORM ==
    <<"C", "o", "u", "g", "a", "r", " ", "f", "o", "r", "m", "'", "s", " ", "a", "b", "i", "l",
      "i", "t", "i", "e", "s", " ", "r", "a", "n", "k", " ", "u", "p", " ", "w", "h", "e", "n",
      " ", " ", "A", "s", "p", "e", "c", "t", " ", "o", "f", " ", "t", "h", "e", " ", "C", "o",
      "u", "g", "a", "r", " ", "d", "o", "e", "s">>

\* '(increased by 3% per 1% of health lost in the past 4 seconds)'
EKKO_CHRONOBREAK ==
    <<"(", "i", "n", "c", "r", "e", "a", "s", "e", "d", " ", "b", "y", " ", "3", "%", " ", "p",
      "e", "r", " ", "1", "%", " ", "o", "f", " ", "h", "e", "a", "l", "t", "h", " ", "l", "o",
      "s", "t", " ", "i", "n", " ", "t", "h", "e", " ", "p", "a", "s", "t", " ", "4", " ", "s",
      "e", "c", "o", "n", "d", "s", ")">>

\* '(based on  Phenomenal Evil stacks)'
PHENOMENAL_EVIL ==
    <<"(", "b", "a", "s", "e", "d", " ", "o", "n", " ", " ", "P", "h", "e", "n", "o", "m", "e",
      "n", "a", "l", " ", "E", "v", "i", "l", " ", "s", "t", "a", "c", "k", "s", ")">>

\* '10 Moonlight + 60'
MOONLIGHT ==
    <<"1", "0", " ", "M", "o", "o", "n", "l", "i", "g", "h", "t", " ", "+", " ", "6", "0">>

\* the splits the Heimerdinger correction of _match_and_split looks for
HEIMER_SPLITS ==
    <<
      \* 'Initial Rocket Magic Damage: 135 / 180 / 225 (+ 45% AP) 2-5'
      <<"I", "n", "i", "t", "i", "a", "l", " ", "R", "o", "c", "k", "e", "t", " ", "M", "a",
        "g", "i", "c", " ", "D", "a", "m", "a", "g", "e", ":", " ", "1", "3", "5", " ", "/",
        " ", "1", "8", "0", " ", "/", " ", "2", "2", "5", " ", "(", "+", " ", "4", "5", "%",
        " ", "A", "P", ")", " ", "2", "-", "5">>,
      \* 'Rocket Magic Damage: 32 / 45 / 58 (+ 12% AP) 6-20'
      <<"R", "o", "c", "k", "e", "t", " ", "M", "a", "g", "i", "c", " ", "D", "a", "m", "a",
        "g", "e", ":", " ", "3", "2", " ", "/", " ", "4", "5", " ", "/", " ", "5", "8", " ",
        "(", "+", " ", "1", "2", "%", " ", "A", "P", ")", " ", "6", "-", "2", "0">>,
      \* '0 Rocket Magic Damage: 16 / 22.5 / 29 (+ 6% AP)'
      <<"0", " ", "R", "o", "c", "k", "e", "t", " ", "M", "a", "g", "i", "c", " ", "D", "a",
        "m", "a", "g", "e", ":", " ", "1", "6", " ", "/", " ", "2", "2", ".", "5", " ", "/",
        " ", "2", "9", " ", "(", "+", " ", "6", "%", " ", "A", "P", ")">>,
      \* 'Total Magic Damage: 503 / 697.5 / 892 (+ 183% AP)'
      <<"T", "o", "t", "a", "l", " ", "M", "a", "g", "i", "c", " ", "D", "a", "m", "a", "g",
        "e", ":", " ", "5", "0", "3", " ", "/", " ", "6", "9", "7", ".", "5", " ", "/", " ",
        "8", "9", "2", " ", "(", "+", " ", "1", "8", "3", "%", " ", "A", "P", ")">>,
      \* ') Total Minion Magic Damage: 2700 / 3600 / 4500 (+ 900% AP)'
      <<")", " ", "T", "o", "t", "a", "l", " ", "M", "i", "n", "i", "o", "n", " ", "M", "a",
        "g", "i", "c", " ", "D", "a", "m", "a", "g", "e", ":", " ", "2", "7", "0", "0", " ",
        "/", " ", "3", "6", "0", "0", " ", "/", " ", "4", "5", "0", "0", " ", "(", "+", " ",
        "9", "0", "0", "%", " ", "A", "P", ")">>
    >>

\* and what it puts in their place
HEIMER_CORRECTED ==
    <<
      \* 'Initial Rocket Magic Damage: 135 / 180 / 225 (+ 45% AP)'
      <<"I", "n", "i", "t", "i", "a", "l", " ", "R", "o", "c", "k", "e", "t", " ", "M", "a",
        "g", "i", "c", " ", "D", "a", "m", "a", "g", "e", ":", " ", "1", "3", "5", " ", "/",
        " ", "1", "8", "0", " ", "/", " ", "2", "2", "5", " ", "(", "+", " ", "4", "5", "%",
        " ", "A", "P", ")">>,
      \* '2-5 Rocket Magic Damage: 32 / 45 / 58 (+ 12% AP)'
      <<"2", "-", "5", " ", "R", "o", "c", "k", "e", "t", " ", "M", "a", "g", "i", "c", " ",
        "D", "a", "m", "a", "g", "e", ":", " ", "3", "2", " ", "/", " ", "4", "5", " ", "/",
        " ", "5", "8", " ", "(", "+", " ", "1", "2", "%", " ", "A", "P", ")">>,
      \* '6-20 Rocket Magic Damage: 16 / 22.5 / 29 (+ 6% AP)'
      <<"6", "-", "2", "0", " ", "R", "o", "c", "k", "e", "t", " ", "M", "a", "g", "i", "c",
        " ", "D", "a", "m", "a", "g", "e", ":", " ", "1", "6", " ", "/", " ", "2", "2", ".",
        "5", " ", "/", " ", "2", "9", " ", "(", "+", " ", "6", "%", " ", "A", "P", ")">>,
      \* 'Total Magic Damage: 503 / 697.5 / 892 (+ 183% AP)'
      <<"T", "o", "t", "a", "l", " ", "M", "a", "g", "i", "c", " ", "D", "a", "m", "a", "g",
        "e", ":", " ", "5", "0", "3", " ", "/", " ", "6", "9", "7", ".", "5", " ", "/", " ",
        "8", "9", "2", " ", "(", "+", " ", "1", "8", "3", "%", " ", "A", "P", ")">>,
      \* 'Total Minion Magic Damage: 2700 / 3600 / 4500 (+ 900% AP)'
      <<"T", "o", "t", "a", "l", " ", "M", "i", "n", "i", "o", "n", " ", "M", "a", "g", "i",
        "c", " ", "D", "a", "m", "a", "g", "e", ":", " ", "2", "7", "0", "0", " ", "/", " ",
        "3", "6", "0", "0", " ", "/", " ", "4", "5", "0", "0", " ", "(", "+", " ", "9", "0",
        "0", "%", " ", "A", "P", ")">>
    >>

(***************************************************************************)
(* class Ability                                                           *)
(***************************************************************************)
\* Ability._preparse_format on the text of a table cell: strip, then every
\* non-breaking space becomes a space (the markup is stripped by BeautifulSoup)
_preparse_format(leveling) ==
    Bind(strip(leveling), LAMBDA text : replace(text, <<"NBSP">>, <<" ">>))

\* the loop of _match_and_split from index i: the span of label i - 1 ends where
\* str.index first finds label i behind the first len(label i - 1) characters
RECURSIVE SplitLoop(_, _, _)
SplitLoop(string, matches, i) ==
    IF i > Len(matches) THEN [err |-> "", splits |-> <<string>>]
    ELSE Bind(Len(matches[i - 1]), LAMBDA skip :
         Bind(find(Drop(string, skip), matches[i]), LAMBDA start :
             IF start = 0 THEN [err |-> "ValueError", splits |-> <<>>]
             ELSE Bind(Drop(string, skip + start - 1), LAMBDA tail :
                  Bind(SplitLoop(tail, matches, i + 1), LAMBDA rest :
                      [err |-> rest.err,
                       splits |-> <<strip(Take(string, skip + start - 1))>>
                                      \o rest.splits]))))

\* the labels of _match_and_split: the matches without the trailing ':'
Labels(string) ==
    Bind(rattribute(string), LAMBDA found :
        [i \in 1..Len(found) |-> Take(found[i], Len(found[i]) - 1)])

\* Refused for every text that begins with one of the phrasings (C10 tells the
\* two apart)
Refused_Prefix(string) ==
    startswith(string, POUNCE_SCALES) \/ startswith(string, COUGAR_FORM)

\* the texts _match_and_split refuses: the two phrasings, as whole strings
Refused(string) == string = POUNCE_SCALES \/ string = COUGAR_FORM

\* Ability._match_and_split(string, rattribute)
_match_and_split(string) ==
    IF Refused(string)
    THEN [err |-> "UnparsableLeveling", matches |-> <<>>, splits |-> <<>>]
    ELSE Bind(Labels(string), LAMBDA matches :
         Bind(SplitLoop(string, matches, 2), LAMBDA loop :
             IF loop.err # ""
             THEN [err |-> loop.err, matches |-> <<>>, splits |-> <<>>]
             ELSE [err |-> "", matches |-> matches,
                   splits |-> IF loop.splits = HEIMER_SPLITS THEN HEIMER_CORRECTED
                              ELSE loop.splits]))

\* the removals of _split_leveling
RemoveWeirdStuff(leveling) ==
    IF Contains(leveling, EKKO_CHRONOBREAK)
    THEN strip(replace(leveling, EKKO_CHRONOBREAK, <<>>))
    ELSE leveling

\* what zip(matches, splits) pairs
ZipLen(ms, ss) == IF Len(ms) <= Len(ss) THEN Len(ms) ELSE Len(ss)

\* Ranks135 with the first three entries in place of the entries 0, 2, 4 (C3
\* tells the two apart)
Ranks135_FirstThree(xs) == IF Len(xs) = 5 THEN <<xs[1], xs[2], xs[3]>> ELSE xs

\* [m[0], m[2], m[4]] of a list of 5, any other list as it is
Ranks135(xs) == IF Len(xs) = 5 THEN <<xs[1], xs[3], xs[5]>> ELSE xs

\* UltimateAttribute without the second assignment of the loop: only the values
\* are sampled (C2 tells the two apart)
UltimateAttribute_ValuesOnly(attribute) ==
    [attribute |-> attribute.attribute,
     modifiers |-> [j \in 1..Len(attribute.modifiers) |->
                      AttributeModifier(attribute.modifiers[j].sign,
                                        Ranks135(attribute.modifiers[j].values),
                                        attribute.modifiers[j].units)]]

\* the body of the loops of _parse_leveling under skill == 'R', for one attribute
UltimateAttribute(attribute) ==
    [attribute |-> attribute.attribute,
     modifiers |-> [j \in 1..Len(attribute.modifiers) |->
                      AttributeModifier(attribute.modifiers[j].sign,
                                        Ranks135(attribute.modifiers[j].values),
                                        Ranks135(attribute.modifiers[j].units))]]

\* the rank post-processing of _parse_leveling
UltimateRanks(kind, attributes) ==
    IF kind = "R" THEN [i \in 1..Len(attributes) |-> UltimateAttribute(attributes[i])]
    ELSE attributes

(***************************************************************************)
(* The table cells the model feeds to _parse_html_table                    *)
(***************************************************************************)
\* 'leveling'
LEVELING ==
    <<"l", "e", "v", "e", "l", "i", "n", "g">>

\* 'cooldown'
COOLDOWN ==
    <<"c", "o", "o", "l", "d", "o", "w", "n">>

\* 'cost'
COST ==
    <<"c", "o", "s", "t">>

\* 'Damage'
DAMAGE ==
    <<"D", "a", "m", "a", "g", "e">>

\* ': '
COLON ==
    <<":", " ">>

\* the skills of a champion; _parse_html_table parses the leveling of Q, W, E, R
Skills == {"Passive", "Q", "W", "E", "R"}

\* the longest generated list of per-rank values
MaxRanks == 5

DigitChar == <<"1", "2", "3", "4", "5", "6", "7", "8", "9">>

\* the literal of rank j in a generated list, 10 * j
RankNumber(j) == <<DigitChar[j], "0">>

\* the units a generated sub-fragment carries: none, '%', ' AD'
Units == {<<>>, <<"%">>, <<" ", "A", "D">>}

\* 'n1<u1> / n2<u2> / ...' of k sub-fragments
ValueList(k, u) == join(SLASH, [j \in 1..k |-> RankNumber(j) \o u[j]])

ValueLists == UNION {{ValueList(k, u) : u \in [1..k -> Units]} : k \in 1..MaxRanks}

PlainLists == {ValueList(k, [j \in 1..k |-> <<>>]) : k \in 1..MaxRanks}

BareLists == UNION {{ValueList(k, u) : u \in [1..k -> {<<>>, <<"%">>}]} : k \in 1..MaxRanks}

\* the coefficients and units of the generated scalings '(+ c<U>)'
Coefficients ==
    {[text |-> <<"6", "0">>, n |-> 60, d |-> 1],
     [text |-> <<"0", ".", "5">>, n |-> 5, d |-> 10]}

ScalingUnits ==
    {<<>>, <<"%", " ", "A", "P">>,
     <<"%", " ", "p", "e", "r", " ", "1", "0", "0", " ", "A", "P">>}

Scaling(c, unit) == <<"(", "+", " ">> \o c.text \o unit \o <<")">>

UniformScalings == {Scaling(c, unit) : c \in Coefficients, unit \in ScalingUnits}

\* scalings that are lists, or carry the other sign, or are the exceptions of _parse_scaling
OtherScalings ==
    {
      \* '(+ 10 / 20 / 30% AP)'
      <<"(", "+", " ", "1", "0", " ", "/", " ", "2", "0", " ", "/", " ", "3", "0", "%", " ",
        "A", "P", ")">>,
      \* '(+ 10% AP / 20% AD)'
      <<"(", "+", " ", "1", "0", "%", " ", "A", "P", " ", "/", " ", "2", "0", "%", " ", "A",
        "D", ")">>,
      \* '(+ 1 / 2 / 3 / 4 / 5% AP)'
      <<"(", "+", " ", "1", " ", "/", " ", "2", " ", "/", " ", "3", " ", "/", " ", "4", " ",
        "/", " ", "5", "%", " ", "A", "P", ")">>,
      \* '(- 5% AP)'
      <<"(", "-", " ", "5", "%", " ", "A", "P", ")">>,
      \* '(+ 5% AP)'
      <<"(", "+", " ", "5", "%", " ", "A", "P", ")">>,
      \* '(+ Siphoning Strike stacks)'
      <<"(", "+", " ", "S", "i", "p", "h", "o", "n", "i", "n", "g", " ", "S", "t", "r", "i",
        "k", "e", " ", "s", "t", "a", "c", "k", "s", ")">>,
      \* '(+[ 1% per 35 ]bonus AD)'
      <<"(", "+", "[", " ", "1", "%", " ", "p", "e", "r", " ", "3", "5", " ", "]", "b", "o",
        "n", "u", "s", " ", "A", "D", ")">>,
      \* '(+ bonus AD)'
      <<"(", "+", " ", "b", "o", "n", "u", "s", " ", "A", "D", ")">>
    }

Labelled(body) == DAMAGE \o COLON \o body

ListTexts == {Labelled(list) : list \in ValueLists}

ScaledTexts ==
    {Labelled(list \o <<" ">> \o scaling) :
        list \in PlainLists, scaling \in UniformScalings \cup OtherScalings}

\* the bounds of the generated interpolated fragments
Limits ==
    {[text |-> <<"0">>, n |-> 0, d |-> 1],
     [text |-> <<"1">>, n |-> 1, d |-> 1],
     [text |-> <<"1", "7">>, n |-> 17, d |-> 1],
     [text |-> <<"4", ".", "5">>, n |-> 45, d |-> 10]}

Markers == {BASED_ON_LEVEL, BASED_ON_CASTS}

Interpolated(minn, maxx, marker) ==
    minn.text \o <<" ", "-", " ">> \o maxx.text \o <<" ">> \o marker

InterpolatedTexts ==
    {Labelled(Interpolated(minn, maxx, marker)) :
        minn \in Limits, maxx \in Limits, marker \in Markers}

\* leveling cells of other shapes: wrong numbers of literals, several labels, text before the first label, the phrasings _match_and_split refuses and near misses of them
OtherTexts ==
    {
      \* 'Damage: 10 (based on level)'
      <<"D", "a", "m", "a", "g", "e", ":", " ", "1", "0", " ", "(", "b", "a", "s", "e", "d",
        " ", "o", "n", " ", "l", "e", "v", "e", "l", ")">>,
      \* 'Damage: 10 / 20 / 30 (based on level)'
      <<"D", "a", "m", "a", "g", "e", ":", " ", "1", "0", " ", "/", " ", "2", "0", " ", "/",
        " ", "3", "0", " ", "(", "b", "a", "s", "e", "d", " ", "o", "n", " ", "l", "e", "v",
        "e", "l", ")">>,
      \* 'Damage: 10 / 20 / 30 (based on casts)'
      <<"D", "a", "m", "a", "g", "e", ":", " ", "1", "0", " ", "/", " ", "2", "0", " ", "/",
        " ", "3", "0", " ", "(", "b", "a", "s", "e", "d", " ", "o", "n", " ", "c", "a", "s",
        "t", "s", ")">>,
      \* 'Damage: 1 - 18 (based on level) (based on casts)'
      <<"D", "a", "m", "a", "g", "e", ":", " ", "1", " ", "-", " ", "1", "8", " ", "(", "b",
        "a", "s", "e", "d", " ", "o", "n", " ", "l", "e", "v", "e", "l", ")", " ", "(", "b",
        "a", "s", "e", "d", " ", "o", "n", " ", "c", "a", "s", "t", "s", ")">>,
      \* 'Damage: (10 / 20 / 30)'
      <<"D", "a", "m", "a", "g", "e", ":", " ", "(", "1", "0", " ", "/", " ", "2", "0", " ",
        "/", " ", "3", "0", ")">>,
      \* 'Damage: 10 / 20 / 30 + 5%'
      <<"D", "a", "m", "a", "g", "e", ":", " ", "1", "0", " ", "/", " ", "2", "0", " ", "/",
        " ", "3", "0", " ", "+", " ", "5", "%">>,
      \* 'Damage: 10 / 20 / 30 (+ 60% AP) (+ 5% AD)'
      <<"D", "a", "m", "a", "g", "e", ":", " ", "1", "0", " ", "/", " ", "2", "0", " ", "/",
        " ", "3", "0", " ", "(", "+", " ", "6", "0", "%", " ", "A", "P", ")", " ", "(", "+",
        " ", "5", "%", " ", "A", "D", ")">>,
      \* 'Damage: 10 / 20 / 30 (+ 5% AD) (+ 60% AP)'
      <<"D", "a", "m", "a", "g", "e", ":", " ", "1", "0", " ", "/", " ", "2", "0", " ", "/",
        " ", "3", "0", " ", "(", "+", " ", "5", "%", " ", "A", "D", ")", " ", "(", "+", " ",
        "6", "0", "%", " ", "A", "P", ")">>,
      \* 'Damage: 4.5 / 5. / 7.50'
      <<"D", "a", "m", "a", "g", "e", ":", " ", "4", ".", "5", " ", "/", " ", "5", ".", " ",
        "/", " ", "7", ".", "5", "0">>,
      \* 'Damage: 05 / 10 / 15'
      <<"D", "a", "m", "a", "g", "e", ":", " ", "0", "5", " ", "/", " ", "1", "0", " ", "/",
        " ", "1", "5">>,
      \* 'Damage: 00 / 10 / 20'
      <<"D", "a", "m", "a", "g", "e", ":", " ", "0", "0", " ", "/", " ", "1", "0", " ", "/",
        " ", "2", "0">>,
      \* 'Damage: 10 per 100 AP'
      <<"D", "a", "m", "a", "g", "e", ":", " ", "1", "0", " ", "p", "e", "r", " ", "1", "0",
        "0", " ", "A", "P">>,
      \* 'Damage: bonus AD'
      <<"D", "a", "m", "a", "g", "e", ":", " ", "b", "o", "n", "u", "s", " ", "A", "D">>,
      \* 'Damage:'
      <<"D", "a", "m", "a", "g", "e", ":">>,
      \* 'Damage: 10 / 20 / 30 Cooldown: 5'
      <<"D", "a", "m", "a", "g", "e", ":", " ", "1", "0", " ", "/", " ", "2", "0", " ", "/",
        " ", "3", "0", " ", "C", "o", "o", "l", "d", "o", "w", "n", ":", " ", "5">>,
      \* 'Damage: 10 / 20 / 30% Cooldown: 5'
      <<"D", "a", "m", "a", "g", "e", ":", " ", "1", "0", " ", "/", " ", "2", "0", " ", "/",
        " ", "3", "0", "%", " ", "C", "o", "o", "l", "d", "o", "w", "n", ":", " ", "5">>,
      \* 'Damage: 10 / 20 / 30 (+ 60% AP) Cooldown: 9 / 8 / 7 / 6 / 5'
      <<"D", "a", "m", "a", "g", "e", ":", " ", "1", "0", " ", "/", " ", "2", "0", " ", "/",
        " ", "3", "0", " ", "(", "+", " ", "6", "0", "%", " ", "A", "P", ")", " ", "C", "o",
        "o", "l", "d", "o", "w", "n", ":", " ", "9", " ", "/", " ", "8", " ", "/", " ", "7",
        " ", "/", " ", "6", " ", "/", " ", "5">>,
      \* 'Damage: 10 (Cooldown x) Cooldown: 5'
      <<"D", "a", "m", "a", "g", "e", ":", " ", "1", "0", " ", "(", "C", "o", "o", "l", "d",
        "o", "w", "n", " ", "x", ")", " ", "C", "o", "o", "l", "d", "o", "w", "n", ":", " ",
        "5">>,
      \* 'Slow: 10% Damage: 10 / 20 / 30 Cooldown: 5'
      <<"S", "l", "o", "w", ":", " ", "1", "0", "%", " ", "D", "a", "m", "a", "g", "e", ":",
        " ", "1", "0", " ", "/", " ", "2", "0", " ", "/", " ", "3", "0", " ", "C", "o", "o",
        "l", "d", "o", "w", "n", ":", " ", "5">>,
      \* 'pre Damage: 10 / 20 / 30 Cooldown: 5'
      <<"p", "r", "e", " ", "D", "a", "m", "a", "g", "e", ":", " ", "1", "0", " ", "/", " ",
        "2", "0", " ", "/", " ", "3", "0", " ", "C", "o", "o", "l", "d", "o", "w", "n", ":",
        " ", "5">>,
      \* '(x) Damage: 10 / 20 / 30 Cooldown: 5'
      <<"(", "x", ")", " ", "D", "a", "m", "a", "g", "e", ":", " ", "1", "0", " ", "/", " ",
        "2", "0", " ", "/", " ", "3", "0", " ", "C", "o", "o", "l", "d", "o", "w", "n", ":",
        " ", "5">>,
      \* 'Cooldown: 5 Damage: 10 Cooldown: 6'
      <<"C", "o", "o", "l", "d", "o", "w", "n", ":", " ", "5", " ", "D", "a", "m", "a", "g",
        "e", ":", " ", "1", "0", " ", "C", "o", "o", "l", "d", "o", "w", "n", ":", " ", "6">>,
      \* 'no labels'
      <<"n", "o", " ", "l", "a", "b", "e", "l", "s">>,
      \* '10 / 20 / 30'
      <<"1", "0", " ", "/", " ", "2", "0", " ", "/", " ", "3", "0">>,
      \* 'Damage: 10 / 20 / 30 (increased by 3% per 1% of health lost in the past 4 seconds)'
      <<"D", "a", "m", "a", "g", "e", ":", " ", "1", "0", " ", "/", " ", "2", "0", " ", "/",
        " ", "3", "0", " ", "(", "i", "n", "c", "r", "e", "a", "s", "e", "d", " ", "b", "y",
        " ", "3", "%", " ", "p", "e", "r", " ", "1", "%", " ", "o", "f", " ", "h", "e", "a",
        "l", "t", "h", " ", "l", "o", "s", "t", " ", "i", "n", " ", "t", "h", "e", " ", "p",
        "a", "s", "t", " ", "4", " ", "s", "e", "c", "o", "n", "d", "s", ")">>,
      \* "Pounce scales with  Aspect of the Cougar's rank"
      <<"P", "o", "u", "n", "c", "e", " ", "s", "c", "a", "l", "e", "s", " ", "w", "i", "t",
        "h", " ", " ", "A", "s", "p", "e", "c", "t", " ", "o", "f", " ", "t", "h", "e", " ",
        "C", "o", "u", "g", "a", "r", "'", "s", " ", "r", "a", "n", "k">>,
      \* "Pounce scales with \xa0Aspect of the Cougar's rank"
      <<"P", "o", "u", "n", "c", "e", " ", "s", "c", "a", "l", "e", "s", " ", "w", "i", "t",
        "h", " ", "NBSP", "A", "s", "p", "e", "c", "t", " ", "o", "f", " ", "t", "h", "e",
        " ", "C", "o", "u", "g", "a", "r", "'", "s", " ", "r", "a", "n", "k">>,
      \* " Pounce scales with  Aspect of the Cougar's rank\xa0"
      <<" ", "P", "o", "u", "n", "c", "e", " ", "s", "c", "a", "l", "e", "s", " ", "w", "i",
        "t", "h", " ", " ", "A", "s", "p", "e", "c", "t", " ", "o", "f", " ", "t", "h", "e",
        " ", "C", "o", "u", "g", "a", "r", "'", "s", " ", "r", "a", "n", "k", "NBSP">>,
      \* "Pounce scales with  Aspect of the Cougar's rank (increased by 3% per 1% of health lost in the past 4 seconds)"
      <<"P", "o", "u", "n", "c", "e", " ", "s", "c", "a", "l", "e", "s", " ", "w", "i", "t",
        "h", " ", " ", "A", "s", "p", "e", "c", "t", " ", "o", "f", " ", "t", "h", "e", " ",
        "C", "o", "u", "g", "a", "r", "'", "s", " ", "r", "a", "n", "k", " ", "(", "i", "n",
        "c", "r", "e", "a", "s", "e", "d", " ", "b", "y", " ", "3", "%", " ", "p", "e", "r",
        " ", "1", "%", " ", "o", "f", " ", "h", "e", "a", "l", "t", "h", " ", "l", "o", "s",
        "t", " ", "i", "n", " ", "t", "h", "e", " ", "p", "a", "s", "t", " ", "4", " ", "s",
        "e", "c", "o", "n", "d", "s", ")">>,
      \* "Pounce scales with  Aspect of the Cougar's rank."
      <<"P", "o", "u", "n", "c", "e", " ", "s", "c", "a", "l", "e", "s", " ", "w", "i", "t",
        "h", " ", " ", "A", "s", "p", "e", "c", "t", " ", "o", "f", " ", "t", "h", "e", " ",
        "C", "o", "u", "g", "a", "r", "'", "s", " ", "r", "a", "n", "k", ".">>,
      \* "Pounce scales with Aspect of the Cougar's rank"
      <<"P", "o", "u", "n", "c", "e", " ", "s", "c", "a", "l", "e", "s", " ", "w", "i", "t",
        "h", " ", "A", "s", "p", "e", "c", "t", " ", "o", "f", " ", "t", "h", "e", " ", "C",
        "o", "u", "g", "a", "r", "'", "s", " ", "r", "a", "n", "k">>,
      \* "Cougar form's abilities rank up when  Aspect of the Cougar does"
      <<"C", "o", "u", "g", "a", "r", " ", "f", "o", "r", "m", "'", "s", " ", "a", "b", "i",
        "l", "i", "t", "i", "e", "s", " ", "r", "a", "n", "k", " ", "u", "p", " ", "w", "h",
        "e", "n", " ", " ", "A", "s", "p", "e", "c", "t", " ", "o", "f", " ", "t", "h", "e",
        " ", "C", "o", "u", "g", "a", "r", " ", "d", "o", "e", "s">>,
      \* "Cougar form's abilities rank up when \xa0Aspect of the Cougar does"
      <<"C", "o", "u", "g", "a", "r", " ", "f", "o", "r", "m", "'", "s", " ", "a", "b", "i",
        "l", "i", "t", "i", "e", "s", " ", "r", "a", "n", "k", " ", "u", "p", " ", "w", "h",
        "e", "n", " ", "NBSP", "A", "s", "p", "e", "c", "t", " ", "o", "f", " ", "t", "h",
        "e", " ", "C", "o", "u", "g", "a", "r", " ", "d", "o", "e", "s">>,
      \* "Note: Cougar form's abilities rank up when  Aspect of the Cougar does"
      <<"N", "o", "t", "e", ":", " ", "C", "o", "u", "g", "a", "r", " ", "f", "o", "r", "m",
        "'", "s", " ", "a", "b", "i", "l", "i", "t", "i", "e", "s", " ", "r", "a", "n", "k",
        " ", "u", "p", " ", "w", "h", "e", "n", " ", " ", "A", "s", "p", "e", "c", "t", " ",
        "o", "f", " ", "t", "h", "e", " ", "C", "o", "u", "g", "a", "r", " ", "d", "o", "e",
        "s">>
    }

\* cooldown and cost cells of other shapes
OtherBodies ==
    {
      \* '60'
      <<"6", "0">>,
      \* '60%'
      <<"6", "0", "%">>,
      \* '4.5'
      <<"4", ".", "5">>,
      \* 'abc'
      <<"a", "b", "c">>,
      \* '10 / 20'
      <<"1", "0", " ", "/", " ", "2", "0">>,
      \* '10 / 20 / 30 (+ 60% AP)'
      <<"1", "0", " ", "/", " ", "2", "0", " ", "/", " ", "3", "0", " ", "(", "+", " ", "6",
        "0", "%", " ", "A", "P", ")">>,
      \* '10 / 20 / 30 (- 5% AP)'
      <<"1", "0", " ", "/", " ", "2", "0", " ", "/", " ", "3", "0", " ", "(", "-", " ", "5",
        "%", " ", "A", "P", ")">>,
      \* '(+ 60% AP)'
      <<"(", "+", " ", "6", "0", "%", " ", "A", "P", ")">>,
      \* '10 / 20 / 30 (based on level)'
      <<"1", "0", " ", "/", " ", "2", "0", " ", "/", " ", "3", "0", " ", "(", "b", "a", "s",
        "e", "d", " ", "o", "n", " ", "l", "e", "v", "e", "l", ")">>,
      \* '10 - 20 (based on level)'
      <<"1", "0", " ", "-", " ", "2", "0", " ", "(", "b", "a", "s", "e", "d", " ", "o", "n",
        " ", "l", "e", "v", "e", "l", ")">>,
      \* '10 (based on  Phenomenal Evil stacks)'
      <<"1", "0", " ", "(", "b", "a", "s", "e", "d", " ", "o", "n", " ", " ", "P", "h", "e",
        "n", "o", "m", "e", "n", "a", "l", " ", "E", "v", "i", "l", " ", "s", "t", "a", "c",
        "k", "s", ")">>,
      \* '10 Moonlight + 60'
      <<"1", "0", " ", "M", "o", "o", "n", "l", "i", "g", "h", "t", " ", "+", " ", "6", "0">>,
      \* '50 + 10 / 20 / 30'
      <<"5", "0", " ", "+", " ", "1", "0", " ", "/", " ", "2", "0", " ", "/", " ", "3", "0">>,
      \* '\xa060\xa0'
      <<"NBSP", "6", "0", "NBSP">>,
      \* '0.0 / 1.0 / 2.0 / 3.0 / 4.0 / 5.0 / 6.0 / 7.0 / 8.0 / 9.0 / 10.0 / 11.0 / 12.0 / 13.0 / 14.0 / 15.0 / 16.0 / 17.0'
      <<"0", ".", "0", " ", "/", " ", "1", ".", "0", " ", "/", " ", "2", ".", "0", " ", "/",
        " ", "3", ".", "0", " ", "/", " ", "4", ".", "0", " ", "/", " ", "5", ".", "0", " ",
        "/", " ", "6", ".", "0", " ", "/", " ", "7", ".", "0", " ", "/", " ", "8", ".", "0",
        " ", "/", " ", "9", ".", "0", " ", "/", " ", "1", "0", ".", "0", " ", "/", " ", "1",
        "1", ".", "0", " ", "/", " ", "1", "2", ".", "0", " ", "/", " ", "1", "3", ".", "0",
        " ", "/", " ", "1", "4", ".", "0", " ", "/", " ", "1", "5", ".", "0", " ", "/", " ",
        "1", "6", ".", "0", " ", "/", " ", "1", "7", ".", "0">>
    }

LevelingTexts == ListTexts \cup ScaledTexts \cup InterpolatedTexts \cup OtherTexts

BareTexts == BareLists \cup OtherBodies

\* the (parameter, value) pairs of data with data['skill']; the loop that fills
\* data skips a cell whose text is empty
Cells ==
    {[parameter |-> LEVELING, skill |-> s, value |-> t] : s \in Skills, t \in LevelingTexts}
    \cup
    {[parameter |-> p, skill |-> s, value |-> t] :
        p \in {COOLDOWN, COST}, s \in Skills, t \in BareTexts}

(***************************************************************************)
(* Ability._parse_html_table on one cell, a step at a time                 *)
(***************************************************************************)
VARIABLES
    parameter,  \* the name of the table row
    skill,      \* data['skill']
    value,      \* the text of the cell
    pc,         \* where the call is
    parsed,     \* the text after _preparse_format
    matches,    \* the labels of _match_and_split
    splits,     \* the spans of _match_and_split
    results,    \* the list _split_leveling builds and _parse_leveling returns
    raised,     \* the exception in flight, "" if none
    data        \* what ends up in data[parameter]

vars == <<parameter, skill, value, pc, parsed, matches, splits, results, raised, data>>

Unset == [kind |-> "unset", text |-> <<>>, attributes |-> <<>>]

StoredText(text) == [kind |-> "text", text |-> text, attributes |-> <<>>]

StoredAttributes(attributes) ==
    [kind |-> "attributes", text |-> <<>>, attributes |-> attributes]

Init ==
    /\ \E cell \in Cells :
        /\ parameter = cell.parameter
        /\ skill = cell.skill
        /\ value = cell.value
    /\ pc = "table"
    /\ parsed = <<>>
    /\ matches = <<>>
    /\ splits = <<>>
    /\ results = <<>>
    /\ raised = ""
    /\ data = Unset

ParsedSkill == skill \in {"Q", "W", "E", "R"}

\* _parse_html_table calls _parse_leveling, which begins with _preparse_format
Preparse ==
    /\ pc = "table"
    /\ startswith(parameter, LEVELING) /\ ParsedSkill
    /\ parsed' = _preparse_format(value)
    /\ pc' = "split"
    /\ UNCHANGED <<parameter, skill, value, matches, splits, results, raised, data>>

\* _split_leveling: the removals, then _match_and_split
MatchAndSplit ==
    /\ pc = "split"
    /\ \E r \in {_match_and_split(RemoveWeirdStuff(parsed))} :
           IF r.err # ""
           THEN /\ raised' = r.err
                /\ pc' = "raised"
                /\ UNCHANGED <<matches, splits>>
           ELSE /\ matches' = r.matches
                /\ splits' = r.splits
                /\ pc' = "attributes"
                /\ UNCHANGED raised
    /\ UNCHANGED <<parameter, skill, value, parsed, results, data>>

\* _split_leveling: one turn of the loop over zip(matches, splits)
FromString ==
    /\ pc = "attributes"
    /\ Len(results) < ZipLen(matches, splits)
    /\ \E r \in {from_string(matches[Len(results) + 1], splits[Len(results) + 1])} :
           IF r.err # ""
           THEN /\ raised' = r.err
                /\ pc' = "raised"
                /\ UNCHANGED results
           ELSE /\ results' = Append(results, r.attribute)
                /\ UNCHANGED <<pc, raised>>
    /\ UNCHANGED <<parameter, skill, value, parsed, matches, splits, data>>

\* _parse_leveling: the loop is over, the ranks of an ultimate are sampled
Ultimate ==
    /\ pc = "attributes"
    /\ Len(results) = ZipLen(matches, splits)
    /\ results' = UltimateRanks(skill, results)
    /\ pc' = "return"
    /\ UNCHANGED <<parameter, skill, value, parsed, matches, splits, raised, data>>

\* _parse_html_table: data[parameter] = value
StoreLeveling ==
    /\ pc = "return"
    /\ data' = StoredAttributes(results)
    /\ pc' = "done"
    /\ UNCHANGED <<parameter, skill, value, parsed, matches, splits, results, raised>>

\* _parse_html_table: except UnparsableLeveling: value = value.text.strip()
ExceptUnparsable ==
    /\ pc = "raised"
    /\ startswith(parameter, LEVELING)
    /\ raised = "UnparsableLeveling"
    /\ data' = StoredText(strip(value))
    /\ raised' = ""
    /\ pc' = "done"
    /\ UNCHANGED <<parameter, skill, value, parsed, matches, splits, results>>

\* what the cooldown and cost branches do once the text is prepared
ParseCell(text) ==
    \E r \in {from_string(parameter, text)} :
        /\ parsed' = text
        /\ IF r.err # ""
           THEN /\ raised' = r.err
                /\ pc' = "raised"
                /\ UNCHANGED data
           ELSE /\ data' = StoredAttributes(<<r.attribute>>)
                /\ pc' = "done"
                /\ UNCHANGED raised

KeepCell(text) ==
    /\ parsed' = text
    /\ data' = StoredText(text)
    /\ pc' = "done"
    /\ UNCHANGED raised

\* _parse_html_table: elif parameter == "cooldown"
Cooldown ==
    /\ pc = "table"
    /\ ~(startswith(parameter, LEVELING) /\ ParsedSkill)
    /\ parameter = COOLDOWN
    /\ \E text \in {_preparse_format(value)} :
           IF Contains(text, BASED_ON_LEVEL) /\ Contains(text, SLASH)
           THEN \E stripped \in {strip(replace(text, BASED_ON_LEVEL, <<>>))} :
                    ParseCell(stripped)
           ELSE IF Contains(text, PHENOMENAL_EVIL)
           THEN KeepCell(text)
           ELSE ParseCell(text)
    /\ UNCHANGED <<parameter, skill, value, matches, splits, results>>

\* _parse_html_table: elif parameter == "cost"
Cost ==
    /\ pc = "table"
    /\ ~(startswith(parameter, LEVELING) /\ ParsedSkill)
    /\ parameter = COST
    /\ \E text \in {_preparse_format(value)} :
           IF Contains(text, MOONLIGHT)
           THEN KeepCell(text)
           ELSE ParseCell(text)
    /\ UNCHANGED <<parameter, skill, value, matches, splits, results>>

\* _parse_html_table: else: data[parameter] = value.text.strip()
StoreText ==
    /\ pc = "table"
    /\ ~(startswith(parameter, LEVELING) /\ ParsedSkill)
    /\ parameter \notin {COOLDOWN, COST}
    /\ data' = StoredText(strip(value))
    /\ pc' = "done"
    /\ UNCHANGED <<parameter, skill, value, parsed, matches, splits, results, raised>>

Next ==
    \/ Preparse
    \/ MatchAndSplit
    \/ FromString
    \/ Ultimate
    \/ StoreLeveling
    \/ ExceptUnparsable
    \/ Cooldown
    \/ Cost
    \/ StoreText

Spec == Init /\ [][Next]_vars


(***************************************************************************)
(* Properties                                                              *)
(***************************************************************************)
Range(xs) == {xs[i] : i \in 1..Len(xs)}

\* the cell is one _parse_html_table hands to _parse_leveling
Leveled == startswith(parameter, LEVELING) /\ ParsedSkill

\* the cell is one _parse_html_table hands to Attribute.from_string
Bare == ~Leveled /\ parameter \in {COOLDOWN, COST}

\* the attributes from_string has returned to _split_leveling, those
\* _parse_leveling has returned, and those stored in data
ReturnedAttributes == Range(results) \cup Range(data.attributes)

ReturnedModifiers == UNION {Range(a.modifiers) : a \in ReturnedAttributes}

\* from_string has just returned to _split_leveling
JustParsed == Leveled /\ pc = "attributes" /\ Len(results) >= 1

\* the text from_string has just been given, and the attribute it returned
LastText == IF Bare THEN parsed ELSE splits[Len(results)]

LastAttribute == IF Bare THEN data.attributes[1] ELSE results[Len(results)]

\* from_string has just returned, to _split_leveling or to _parse_html_table
FromStringReturned == JustParsed \/ (Bare /\ pc = "done" /\ data.kind = "attributes")

IntValue(n) == Number("int", n, 1)

\* C1: from_string never returns an attribute whose list of modifiers is
\* empty (a body with no scaling and no flat fragment ends in an error).
C1_NeverEmpty == \A a \in ReturnedAttributes : a.modifiers # <<>>

\* C2: every modifier of every attribute returned by from_string or by
\* _parse_leveling has as many units as values, whichever path built it and
\* also after the reduction of an ultimate's ranks.
C2_LengthsAgree == \A m \in ReturnedModifiers : Len(m.values) = Len(m.units)

\* an ultimate's attribute with a scaling and a flat modifier, both reduced to
\* three ranks, is stored
C2_Witness ==
    /\ Leveled /\ skill = "R" /\ pc = "done" /\ data.kind = "attributes"
    /\ \E a \in Range(data.attributes) :
        /\ Len(a.modifiers) = 2
        /\ \A m \in Range(a.modifiers) : Len(m.values) = 3 /\ Len(m.units) = 3

\* the entries 0, 2, 4 of a list of 5, any other list unchanged
Sampled(kind, xs) ==
    IF kind = "R" /\ Len(xs) = 5 THEN <<xs[1], xs[3], xs[5]>> ELSE xs

\* C3: the step of _parse_leveling that ends the loop replaces, for skill R,
\* every values and units list of exactly 5 entries by its entries 0, 2, 4 and
\* leaves every other list as it is; for another skill it changes nothing;
\* reducing the reduced result again changes nothing.
C3_Reduction ==
    [][(pc = "attributes" /\ pc' = "return") =>
          /\ Len(results') = Len(results)
          /\ \A i \in 1..Len(results) :
                /\ results'[i].attribute = results[i].attribute
                /\ Len(results'[i].modifiers) = Len(results[i].modifiers)
                /\ \A j \in 1..Len(results[i].modifiers) :
                      /\ results'[i].modifiers[j].sign = results[i].modifiers[j].sign
                      /\ results'[i].modifiers[j].values
                             = Sampled(skill, results[i].modifiers[j].values)
                      /\ results'[i].modifiers[j].units
                             = Sampled(skill, results[i].modifiers[j].units)
          /\ (skill # "R" => results' = results)
          /\ UltimateRanks(skill, results') = results']_vars

\* an ultimate's list 10 / 20 / 30 / 40 / 50 has become 10 / 30 / 50
C3_Witness ==
    /\ skill = "R" /\ pc = "return"
    /\ \E m \in ReturnedModifiers :
        /\ m.values = <<IntValue(10), IntValue(30), IntValue(50)>>
        /\ Len(m.units) = 3


\* the number a generated coefficient or limit stands for
Denoted(c) == Number(IF Contains(c.text, <<".">>) THEN "float" ELSE "int", c.n, c.d)

\* 'Damage: 10 / 20 / 30 (+ 60% AP) (+ 5% AD)' and the same with the scalings
\* the other way round
TwoScalings(first, second) ==
    Labelled(ValueList(3, [j \in 1..3 |-> <<>>]) \o <<" ">> \o first \o <<" ">> \o second)

AP60 == Scaling([text |-> <<"6", "0">>], <<"%", " ", "A", "P">>)

AD5 == Scaling([text |-> <<"5">>], <<"%", " ", "A", "D">>)

\* C4: for 'Label: v1 / v2 / v3 / v4 / v5 (+ c U)' from_string returns exactly
\* two modifiers: first that of the scaling, sign '+', c five times and the
\* text after c five times, then the flat one, sign '+', v1..v5 in order and
\* empty units.  In general the modifiers of the scalings come first, in the
\* order of the text, then those of the flat fragments, in the order of the
\* text.
C4_ScalingsFirst ==
    JustParsed /\ Len(results) = 1 =>
        /\ \A c \in Coefficients, unit \in ScalingUnits :
              parsed = Labelled(ValueList(5, [j \in 1..5 |-> <<>>])
                                    \o <<" ">> \o Scaling(c, unit))
              => results[1].modifiers =
                     <<AttributeModifier("+", Repeat(Denoted(c), 5), Repeat(unit, 5)),
                       AttributeModifier("+", [j \in 1..5 |-> IntValue(10 * j)],
                                         Repeat(<<>>, 5))>>
        /\ parsed = TwoScalings(AP60, AD5)
              => /\ Len(results[1].modifiers) = 3
                 /\ results[1].modifiers[1].units[1] = <<"%", " ", "A", "P">>
                 /\ results[1].modifiers[2].units[1] = <<"%", " ", "A", "D">>
                 /\ results[1].modifiers[3].values = <<IntValue(10), IntValue(20), IntValue(30)>>
        /\ parsed = TwoScalings(AD5, AP60)
              => /\ Len(results[1].modifiers) = 3
                 /\ results[1].modifiers[1].units[1] = <<"%", " ", "A", "D">>
                 /\ results[1].modifiers[2].units[1] = <<"%", " ", "A", "P">>
                 /\ results[1].modifiers[3].values = <<IntValue(10), IntValue(20), IntValue(30)>>
        /\ parsed = Labelled(ValueList(3, [j \in 1..3 |-> <<>>]) \o PLUS \o <<"5", "%">>)
              => /\ Len(results[1].modifiers) = 2
                 /\ results[1].modifiers[1].values = <<IntValue(10), IntValue(20), IntValue(30)>>
                 /\ results[1].modifiers[2].values = Repeat(IntValue(5), 5)

\* 'Damage: 10 / 20 / 30 / 40 / 50 (+ 60% AP)' has been parsed
C4_Witness ==
    /\ JustParsed /\ Len(results) = 1
    /\ parsed = Labelled(ValueList(5, [j \in 1..5 |-> <<>>]) \o <<" ">> \o AP60)
    /\ Len(results[1].modifiers) = 2
    /\ results[1].modifiers[1].values = Repeat(IntValue(60), 5)

\* v = minn + i * (maxx - minn) / 17, over the rationals
OnTheLine(v, minn, maxx, i) ==
    /\ v.k = "float"
    /\ 17 * v.n * minn.d * maxx.d
           = v.d * (17 * minn.n * maxx.d + i * (maxx.n * minn.d - minn.n * maxx.d))

SameNumber(v, w) == v.n * w.d = w.n * v.d

\* leveling cells whose fragment has a marker phrase and one or three literals
WrongCount ==
    {Labelled(RankNumber(1) \o <<" ">> \o BASED_ON_LEVEL),
     Labelled(ValueList(3, [j \in 1..3 |-> <<>>]) \o <<" ">> \o BASED_ON_LEVEL),
     Labelled(ValueList(3, [j \in 1..3 |-> <<>>]) \o <<" ">> \o BASED_ON_CASTS)}

Distinct(k, u) == {u[j] : j \in 1..k} \ {<<>>}

\* the literals of a generated list of k sub-fragments; a list of one
\* sub-fragment stands for 5 ranks
Ranks(k) == IF k = 1 THEN Repeat(IntValue(10), 5) ELSE [j \in 1..k |-> IntValue(10 * j)]

\* C6: in the flat path for literal lists, with exactly one distinct
\* non-empty unit u and some positions without a unit, the modifier has u at
\* every position and the values keep their positions ('50% / 60% / 70'
\* gives '%', '%', '%'); with no unit at all the units stay empty; with two
\* or more distinct non-empty units the parse ends in an error and returns
\* no modifier.
C6_Unification ==
    Leveled /\ pc \in {"attributes", "raised"} =>
        \A k \in 1..MaxRanks : \A u \in [1..k -> Units] :
            parsed = Labelled(ValueList(k, u)) =>
                /\ pc = "raised" =>
                      /\ Cardinality(Distinct(k, u)) >= 2
                      /\ raised = "AssertionError"
                      /\ results = <<>>
                /\ Len(results) = 1 =>
                      /\ Cardinality(Distinct(k, u)) <= 1
                      /\ results[1].modifiers =
                             <<AttributeModifier("+", Ranks(k),
                                   Repeat(IF Distinct(k, u) = {} THEN <<>>
                                          ELSE CHOOSE x \in Distinct(k, u) : TRUE,
                                          Len(Ranks(k))))>>

\* '10% / 20% / 30' has been parsed
C6_Witness ==
    /\ JustParsed
    /\ parsed = Labelled(ValueList(3, <<<<"%">>, <<"%">>, <<>>>>))
    /\ results[1].modifiers[1].units = <<<<"%">>, <<"%">>, <<"%">>>>
    /\ results[1].modifiers[1].values = <<IntValue(10), IntValue(20), IntValue(30)>>

\* C7: within every modifier from_string returns, whichever path built it,
\* all non-empty units are identical and are the unit of every position:
\* no modifier carries two different non-empty units or a mix of empty and
\* non-empty units, modifiers of ' / '-separated scalings included.
C7_UnitsConsistent ==
    \A m \in ReturnedModifiers :
        \A i \in 1..Len(m.units), j \in 1..Len(m.units) : m.units[i] = m.units[j]


\* Python's str of a number, for the text a modifier's values are joined into
\* the digit of a value below ten
DigitOf(n) == CHOOSE c \in Digit : DigitValue[c] = n

\* str(n) of a natural number
RECURSIVE IntDigits(_)
IntDigits(n) ==
    IF n < 10 THEN <<DigitOf(n)>> ELSE IntDigits(n \div 10) \o <<DigitOf(n % 10)>>

\* the decimal expansion of r / d below one, for a d that divides a power of ten
RECURSIVE FractionDigits(_, _)
FractionDigits(r, d) ==
    IF r = 0 THEN <<>>
    ELSE <<DigitOf((10 * r) \div d)>> \o FractionDigits((10 * r) % d, d)

\* the numbers str prints as a plain decimal literal with all their digits: an
\* int, or a float with a short finite expansion that is zero or at least
\* 0.0001 (a smaller float is printed with an exponent)
Printable(v) ==
    \/ v.k = "int"
    \/ /\ v.k = "float"
       /\ Pow10(6) % v.d = 0
       /\ (v.n = 0 \/ v.n * 10000 >= v.d)

\* str(v) of a printable number: '10' for an int, '4.5' and '5.0' for a float
str(v) ==
    IF v.k = "int" THEN IntDigits(v.n)
    ELSE IntDigits(v.n \div v.d) \o <<".">>
             \o (IF v.n % v.d = 0 THEN <<"0">> ELSE FractionDigits(v.n % v.d, v.d))

\* the modifiers from_string has just returned that come from flat fragments:
\* those behind the modifiers of the scalings
LastFlatModifiers ==
    {LastAttribute.modifiers[j] :
        j \in (Len(rscaling(LastText)) + 1)..Len(LastAttribute.modifiers)}

AllPrintable(m) == \A i \in 1..Len(m.values) : Printable(m.values[i])

\* ' / '.join(str(v) for v in m.values), given back to from_string
Reparsed(m) == from_string(<<"x">>, join(SLASH, [i \in 1..Len(m.values) |-> str(m.values[i])]))

RoundTrip(m) ==
    \E again \in {Reparsed(m)} :
        /\ again.err = ""
        /\ \E j \in 1..Len(again.attribute.modifiers) :
              again.attribute.modifiers[j].values = m.values

\* C8 as stated: for every flat modifier m from_string produces, with 3, 5 or
\* 18 values, joining m.values with ' / ' and parsing that text again gives
\* an attribute with a flat modifier whose values are m.values.
C8_RoundTrip_3_5_18 ==
    FromStringReturned =>
        \A m \in LastFlatModifiers :
            Len(m.values) \in {3, 5, 18} /\ AllPrintable(m) => RoundTrip(m)

\* C8, amended: for every flat modifier m from_string produces with 3 or 5
\* values, joining m.values with ' / ' and parsing that text again gives an
\* attribute with exactly one modifier, whose values are m.values; for a flat
\* modifier with another number of values (2, 4, 6, 18) the second parse
\* returns an attribute without modifiers.
C8_RoundTrip_3_5 ==
    FromStringReturned =>
        \A m \in LastFlatModifiers :
            /\ Len(m.values) \in {3, 5} =>
                  /\ AllPrintable(m)
                  /\ RoundTrip(m)
                  /\ Len(Reparsed(m).attribute.modifiers) = 1
            /\ Len(m.values) \notin {3, 5} /\ AllPrintable(m) =>
                  /\ Reparsed(m).err = ""
                  /\ Reparsed(m).attribute.modifiers = <<>>

\* the flat modifier 4.5, 5.0, 7.5 of 'Damage: 4.5 / 5. / 7.50' has been
\* returned; it prints as '4.5 / 5.0 / 7.5'
C8_Witness ==
    /\ FromStringReturned
    /\ \E m \in LastFlatModifiers :
        /\ m.values = <<Number("float", 9, 2), Number("float", 5, 1), Number("float", 15, 2)>>
        /\ str(m.values[2]) = <<"5", ".", "0">>
        /\ RoundTrip(m)


\* C9 as stated: in every modifier returned by from_string or
\* _parse_leveling the number of values is 1, 3, 5 or 18; a fragment of 2, 4
\* or 6 and more sub-fragments gives no returned modifier of that length.
C9_Lengths_1_3_5_18 == \A m \in ReturnedModifiers : Len(m.values) \in {1, 3, 5, 18}

\* the number of values of the flat modifier of a generated list of k
\* sub-fragments as from_string returns it
ListLength(k) == IF k = 1 THEN 5 ELSE k

\* what the reduction of _parse_leveling makes of a number of values
ReducedLength(kind, n) == IF kind = "R" /\ n = 5 THEN 3 ELSE n

\* '(+ 10% AP / 20% AD)'
TwoPartScaling ==
    <<"(", "+", " ", "1", "0", "%", " ", "A", "P", " ", "/", " ", "2", "0", "%", " ", "A",
      "D", ")">>

\* C9, amended: a modifier returned by from_string has 18 values for an
\* interpolated flat fragment, as many values as the fragment has
\* ' / '-separated sub-fragments when it has several (2, 4, 6 and more
\* included), and 5 values for a fragment without ' / '; no modifier has
\* fewer than 2 values.  _parse_leveling returns these lengths, except that
\* for skill R a length of 5 has become 3.
C9_Lengths ==
    /\ \A m \in ReturnedModifiers : Len(m.values) >= 2
    /\ Leveled /\ Len(results) = 1 =>
          /\ \A k \in 1..MaxRanks :
                parsed = Labelled(ValueList(k, [j \in 1..k |-> <<>>])) =>
                    /\ Len(results[1].modifiers) = 1
                    /\ pc = "attributes" =>
                          Len(results[1].modifiers[1].values) = ListLength(k)
                    /\ pc \in {"return", "done"} =>
                          Len(results[1].modifiers[1].values)
                              = ReducedLength(skill, ListLength(k))
          /\ \A minn \in Limits, maxx \in Limits, marker \in Markers :
                parsed = Labelled(Interpolated(minn, maxx, marker)) =>
                    Len(results[1].modifiers[1].values) = 18
          /\ \A k \in 1..MaxRanks :
                parsed = Labelled(ValueList(k, [j \in 1..k |-> <<>>])
                                      \o <<" ">> \o TwoPartScaling)
                    => Len(results[1].modifiers[1].values) = 2
    /\ Leveled /\ pc \in {"return", "done"} /\ skill = "R" =>
          \A m \in ReturnedModifiers : Len(m.values) # 5

\* 'Damage: 10 / 20 / 30 / 40' has been parsed into a modifier of 4 values,
\* which _parse_leveling returns
C9_Witness ==
    /\ Leveled /\ pc = "return"
    /\ parsed = Labelled(ValueList(4, [j \in 1..4 |-> <<>>]))
    /\ Len(results[1].modifiers[1].values) = 4


\* the text of the cell, after _preparse_format and the removals of
\* _split_leveling, is one of the two phrasings _match_and_split refuses
Unparsable == RemoveWeirdStuff(_preparse_format(value)) \in {POUNCE_SCALES, COUGAR_FORM}

\* C10: _parse_leveling raises UnparsableLeveling exactly when the text, after
\* the normalisation of whitespace and the removals, is as a whole one of the
\* two phrasings; then no label is matched, no attribute is parsed, no list of
\* attributes is returned and the caller stores the stripped raw text; for
\* every other text the error is never raised.
C10_Unparsable ==
    /\ raised = "UnparsableLeveling" =>
          /\ Leveled /\ Unparsable /\ pc = "raised"
          /\ matches = <<>> /\ splits = <<>> /\ results = <<>> /\ data = Unset
    /\ Leveled /\ Unparsable /\ pc \notin {"table", "split"} =>
          /\ matches = <<>> /\ splits = <<>> /\ results = <<>>
          /\ \/ pc = "raised" /\ raised = "UnparsableLeveling"
             \/ pc = "done" /\ raised = "" /\ data = StoredText(strip(value))
    /\ Leveled /\ ~Unparsable => data.kind # "text"

\* the phrasing followed by the phrase _split_leveling removes was refused, and
\* the caller has stored the raw text, phrase included
C10_Witness ==
    /\ Leveled /\ pc = "done"
    /\ Contains(value, EKKO_CHRONOBREAK)
    /\ data = StoredText(strip(value))


\* C11: for every text that is not one of the refused phrasings,
\* _match_and_split returns as many spans as labels, texts without any label
\* included, so that zip(matches, splits) drops no span and no label.
C11_SameLength == Len(matches) = Len(splits)


\* position b begins a label of s: a label character from which only label
\* characters and whitespace lead up to a colon
BeginsLabel(s, b) ==
    /\ s[b] \in LabelChar
    /\ \E c \in (b + 1)..Len(s) :
          /\ s[c] = ":"
          /\ \A k \in b..(c - 1) : s[k] \in LabelChar \cup Whitespace

\* the positions where the matches of the label pattern start, from position
\* i on: the first position that begins a label, then those behind its colon
RECURSIVE LabelStarts(_, _)
LabelStarts(s, i) ==
    Bind({b \in i..Len(s) : BeginsLabel(s, b)}, LAMBDA begin :
        IF begin = {} THEN <<>>
        ELSE Bind(MinOf(begin), LAMBDA b :
             Bind(MinOf({c \in b..Len(s) : s[c] = ":"}), LAMBDA colon :
                 <<b>> \o LabelStarts(s, colon + 1))))

\* the spans the labels own: the first from the start of the text, each up to
\* where the match of the next label starts, the last to the end of the text
OwnedSpans(s) ==
    Bind(LabelStarts(s, 1), LAMBDA starts :
        [i \in 1..Len(starts) |->
            IF i = Len(starts)
            THEN SubSeq(s, IF i = 1 THEN 1 ELSE starts[i], Len(s))
            ELSE strip(SubSeq(s, IF i = 1 THEN 1 ELSE starts[i], starts[i + 1] - 1))])

\* C12: the span of each label ends exactly where the match of the next
\* label starts and the span of the last label runs to the end of the text,
\* also when the text of the next label occurs earlier, inside the body of
\* the label or before the first label: no character of a label's body goes
\* to the following label.
C12_SpanOwnership ==
    pc \in {"attributes", "return"} /\ matches # <<>> =>
        splits = OwnedSpans(RemoveWeirdStuff(parsed))


\* 'Damage: 10 / 20 / 30 ' followed by a scaling of 5% AP with the given sign
SignedText(sign) ==
    Labelled(ValueList(3, [j \in 1..3 |-> <<>>])
                 \o <<" ", "(", sign, " ", "5", "%", " ", "A", "P", ")">>)

\* C13: a fragment in parentheses that starts with '+' or with '-' is taken
\* out of the span as a scaling and becomes a modifier with that sign:
\* 'Damage: 10 / 20 / 30 (- 5% AP)' gives a scaling modifier of sign '-' and
\* the flat modifier 10, 20, 30, as the '+' form gives one of sign '+'; every
\* returned modifier has sign '+' or '-'.
C13_BothSigns ==
    /\ \A m \in ReturnedModifiers : m.sign \in {"+", "-"}
    /\ \A sign \in {"+", "-"} :
          Leveled /\ parsed = SignedText(sign) /\ pc \in {"attributes", "raised"} =>
              /\ pc = "attributes"
              /\ Len(results) = 1 =>
                    results[1].modifiers =
                        <<AttributeModifier(sign, Repeat(IntValue(5), 5),
                                            Repeat(<<"%", " ", "A", "P">>, 5)),
                          AttributeModifier("+", <<IntValue(10), IntValue(20), IntValue(30)>>,
                                            Repeat(<<>>, 3))>>

=============================================================================
